---- MODULE Spec2Model ----
(***************************************************************************)
(* A model of the GoGB emulator core (package gb): the register file, the  *)
(* 8-bit ALU helpers, the memory map and the CPU's fetch/decode/execute    *)
(* step, translated from src/gb/cpu.go and src/gb/memory.go.               *)
(*                                                                         *)
(* Numbers are written in decimal; the hexadecimal value of the source is  *)
(* given in the comment next to each.  Unsigned Go integers keep their     *)
(* width: every uint8 result is taken modulo 256 and every uint16 result   *)
(* modulo 65536.  The uint32 tick counter stays far below 2^32 within the  *)
(* step bound of the model, so it is modelled without wrap-around.         *)
(***************************************************************************)
EXTENDS Integers, Sequences, FiniteSets, TLC

VARIABLES
    regs,       \* CPU.regs : Registers (a b c d e h l f pc sp)
    mem,        \* CPU.mem  : the backing arrays of the memory map
    ticks,      \* CPU.ticks (uint32)
    stopped,    \* CPU.stopped
    panicked,   \* TRUE once a Go run-time panic has ended the program
    last,       \* the call just made: its name, arguments, result and the
                \* state it started from (an observer, not program state)
    nops        \* the number of calls made so far (an observer)

vars == <<regs, mem, ticks, stopped, panicked, last, nops>>

Byte == 0..255
Word == 0..65535

------------------------------------------------------------------------------
(* Go's unsigned bit operators.                                            *)

RECURSIVE And(_, _)
\* x & y
And(x, y) ==
    IF x = 0 \/ y = 0 THEN 0
    ELSE (x % 2) * (y % 2) + 2 * And(x \div 2, y \div 2)

\* x | y
Or(x, y) == x + y - And(x, y)

\* x ^ y
Xor(x, y) == x + y - 2 * And(x, y)

\* uint8(x), uint16(x): conversion keeps the low bits
U8(x) == x % 256
U16(x) == x % 65536

------------------------------------------------------------------------------
(* Registers (cpu.go:11-145)                                               *)

\* the zero value of Registers
ZeroRegs ==
    [a |-> 0, b |-> 0, c |-> 0, d |-> 0, e |-> 0, h |-> 0, l |-> 0,
     f |-> 0, pc |-> 0, sp |-> 0]

\* (uint16(r.b) << 8) | uint16(r.c)
GetBC(r) == Or(U16(r.b * 256), r.c)
GetDE(r) == Or(U16(r.d * 256), r.e)
GetHL(r) == Or(U16(r.h * 256), r.l)

\* a plausible slip: the two halves stored the wrong way round
SetBC_swapped(r, value) ==
    [r EXCEPT !.c = U8(And(value, 65280) \div 256), !.b = U8(And(value, 255))]

\* r.b = uint8((value & 0xFF00) >> 8); r.c = uint8(value & 0xFF)
SetBC(r, value) ==
    [r EXCEPT !.b = U8(And(value, 65280) \div 256), !.c = U8(And(value, 255))]
SetDE(r, value) ==
    [r EXCEPT !.d = U8(And(value, 65280) \div 256), !.e = U8(And(value, 255))]
SetHL(r, value) ==
    [r EXCEPT !.h = U8(And(value, 65280) \div 256), !.l = U8(And(value, 255))]

\* (r.f & 0x80) >> 7 and so on: 1 or 0
GetZero(r) == And(r.f, 128) \div 128
GetSubtract(r) == And(r.f, 64) \div 64
GetHalfCarry(r) == And(r.f, 32) \div 32
GetCarry(r) == And(r.f, 16) \div 16

\* r.f |= 0x80  /  r.f &= 0x7F
SetZero(r, value) ==
    [r EXCEPT !.f = IF value THEN Or(@, 128) ELSE And(@, 127)]
\* r.f |= 0x40  /  r.f &= 0xBF
SetSubtract(r, value) ==
    [r EXCEPT !.f = IF value THEN Or(@, 64) ELSE And(@, 191)]
\* r.f |= 0x20  /  r.f &= 0xDF
SetHalfCarry(r, value) ==
    [r EXCEPT !.f = IF value THEN Or(@, 32) ELSE And(@, 223)]
\* a plausible slip: the masks of Carry one bit too low (0x08 / 0xF7)
SetCarry_bit3(r, value) ==
    [r EXCEPT !.f = IF value THEN Or(@, 8) ELSE And(@, 247)]

\* r.f |= 0x10  /  r.f &= 0xEF
SetCarry(r, value) ==
    [r EXCEPT !.f = IF value THEN Or(@, 16) ELSE And(@, 239)]

------------------------------------------------------------------------------
(* The ALU helpers (cpu.go:149-276).  Each takes the register file and     *)
(* returns the register file the call leaves.  ADD is handed a pointer to  *)
(* a register: dst names that register.                                    *)

\* a plausible slip: Zero taken from the 16-bit sum, as ADC does
ADD_zeroOfSum(r, dst, value) ==
    LET result == r[dst] + value
        r1 == [r EXCEPT ![dst] = U8(And(result, 255))]
        r2 == SetCarry(r1, And(result, 65280) # 0)
        r3 == SetZero(r2, result = 0)
        r4 == SetHalfCarry(r3, U8(And(r3[dst], 15) + And(value, 15)) > 15)
    IN  SetSubtract(r4, FALSE)

ADD(r, dst, value) ==
    LET result == r[dst] + value                           \* uint16 sum
        r1 == [r EXCEPT ![dst] = U8(And(result, 255))]     \* *address = ...
        r2 == SetCarry(r1, And(result, 65280) # 0)
        r3 == SetZero(r2, r2[dst] = 0)
        \* the half carry is taken from *address AFTER the assignment
        r4 == SetHalfCarry(r3, U8(And(r3[dst], 15) + And(value, 15)) > 15)
    IN  SetSubtract(r4, FALSE)

\* ADD_16 is handed a pointer to a 16-bit register: dst names it.  The sum
\* *address + value is a uint16 sum, wrapped before it is widened to uint32,
\* so the high half that the Carry test looks at is always zero
ADD_16(r, dst, value) ==
    LET result == U16(r[dst] + value)                      \* uint32(uint16 sum)
        r1 == [r EXCEPT ![dst] = U16(And(result, 65535))]  \* *address = ...
        r2 == SetCarry(r1, result \div 65536 # 0)          \* result & 0xFFFF0000
        r3 == SetZero(r2, r2[dst] = 0)
        r4 == SetHalfCarry(r3, And(r3[dst], 15) + And(value, 15) > 15)
    IN  SetSubtract(r4, FALSE)

\* a plausible slip: the borrow test written the wrong way round
SUB_carrySwapped(r, value) ==
    LET r1 == SetCarry(r, value < r.a)
        r2 == SetHalfCarry(r1, And(r1.a, 15) < And(value, 15))
        r3 == SetSubtract(r2, TRUE)
        r4 == [r3 EXCEPT !.a = U8(@ - value + 256)]
    IN  SetZero(r4, r4.a = 0)

SUB(r, value) ==
    LET r1 == SetCarry(r, r.a < value)
        r2 == SetHalfCarry(r1, And(r1.a, 15) < And(value, 15))
        r3 == SetSubtract(r2, TRUE)
        r4 == [r3 EXCEPT !.a = U8(@ - value + 256)]        \* a -= value
    IN  SetZero(r4, r4.a = 0)

CP(r, value) ==
    LET r1 == SetZero(r, r.a = value)
        r2 == SetCarry(r1, r1.a < value)
        r3 == SetHalfCarry(r2, And(r2.a, 15) < And(value, 15))
    IN  SetSubtract(r3, TRUE)

ADC(r, value) ==
    LET result == value + r.a + GetCarry(r)                \* uint16 sum
        r1 == SetZero(r, result = 0)                       \* of the 16-bit sum
        r2 == SetSubtract(r1, FALSE)
        r3 == SetHalfCarry(r2,
                  U8(And(r2.a, 15) + And(value, 15) + GetCarry(r2)) > 15)
        r4 == SetCarry(r3, And(result, 65280) # 0)
    IN  [r4 EXCEPT !.a = U8(And(result, 255))]

SBC(r, value) ==
    LET newValue == U8(value + GetCarry(r))                \* uint8: wraps
        r1 == SetCarry(r, r.a < newValue)
        r2 == SetHalfCarry(r1, And(r1.a, 15) < And(newValue, 15))
        r3 == SetSubtract(r2, TRUE)
        r4 == [r3 EXCEPT !.a = U8(@ - newValue + 256)]
    IN  SetZero(r4, r4.a = 0)

\* a plausible slip: HalfCarry cleared, as OR and XOR clear it
AND_clearsHalfCarry(r, value) ==
    LET r1 == [r EXCEPT !.a = And(@, value)]
        r2 == SetZero(r1, r1.a = 0)
        r3 == SetSubtract(r2, FALSE)
        r4 == SetHalfCarry(r3, FALSE)
    IN  SetCarry(r4, FALSE)

AND(r, value) ==
    LET r1 == [r EXCEPT !.a = And(@, value)]
        r2 == SetZero(r1, r1.a = 0)
        r3 == SetSubtract(r2, FALSE)
        r4 == SetHalfCarry(r3, TRUE)
    IN  SetCarry(r4, FALSE)

OR(r, value) ==
    LET r1 == [r EXCEPT !.a = Or(@, value)]
        r2 == SetZero(r1, r1.a = 0)
        r3 == SetSubtract(r2, FALSE)
        r4 == SetHalfCarry(r3, FALSE)
    IN  SetCarry(r4, FALSE)

XOR(r, value) ==
    LET r1 == [r EXCEPT !.a = Xor(@, value)]
        r2 == SetZero(r1, r1.a = 0)
        r3 == SetSubtract(r2, FALSE)
        r4 == SetHalfCarry(r3, FALSE)
    IN  SetCarry(r4, FALSE)

\* a plausible slip: the wrap from 0xFF to 0x00 reported in Carry
INC_setsCarry(r, value) ==
    LET r1 == SetHalfCarry(r, And(value, 15) = 15)
        r2 == SetSubtract(r1, FALSE)
        v  == U8(value + 1)
        r3 == SetCarry(r2, value = 255)
    IN  [regs |-> SetZero(r3, v = 0), val |-> v]

\* INC and DEC return the new value and leave flags in the register file
INC(r, value) ==
    LET r1 == SetHalfCarry(r, And(value, 15) = 15)
        r2 == SetSubtract(r1, FALSE)
        v  == U8(value + 1)                                \* value++
    IN  [regs |-> SetZero(r2, v = 0), val |-> v]

DEC(r, value) ==
    LET r1 == SetHalfCarry(r, And(value, 15) = 0)
        r2 == SetSubtract(r1, TRUE)
        v  == U8(value - 1 + 256)                          \* value--
    IN  [regs |-> SetZero(r2, v = 0), val |-> v]

------------------------------------------------------------------------------
(* The memory map (memory.go:40-149).  A backing array is a function from  *)
(* a finite set of indices to the bytes stored there; every other index of *)
(* the array holds the zero of Go's zero-initialised arrays.               *)
(*                                                                         *)
(* cpu.go:37 declares the CPU's bus as `mem Memory`, the older type kept   *)
(* at memory.go:181-219 whose Read8 returns 0 for every address.  The bus  *)
(* modelled here is MemoryMap, the type with the region map and the        *)
(* backing arrays; its Read8 is the only one that can return a cartridge   *)
(* byte, so it is the one under which Step can fetch anything but 0x00.    *)

ROM_END == 32768       \* 0x8000
VRAM_END == 40960      \* 0xA000
SRAM_END == 49152      \* 0xC000
WRAM_END == 53248      \* 0xD000
ECHO_END == 65024      \* 0xFE00
OAM_END == 65184       \* 0xFEA0
UNUSED_END == 65280    \* 0xFF00
IO_END == 65408        \* 0xFF80
HRAM_END == 65535      \* 0xFFFF

\* the declared lengths of the backing arrays
ArrayLen ==
    [cart |-> 32768, vram |-> 8192, sram |-> 8192, wram |-> 8192,
     oam |-> 256, hram |-> 128, io |-> 256]

\* the zero value of the memory map: every backing array all zero
ZeroMem == [cart |-> <<>>, vram |-> <<>>, sram |-> <<>>, wram |-> <<>>,
            oam |-> <<>>, hram |-> <<>>, io |-> <<>>]

\* m.arr[i] in Go: a run-time panic when i is outside the array
Index(m, arr, i) ==
    IF i < 0 \/ i >= ArrayLen[arr] THEN [panic |-> TRUE, val |-> 0]
    ELSE [panic |-> FALSE, val |-> IF i \in DOMAIN m[arr] THEN m[arr][i] ELSE 0]

\* the switch of Write8: every case is empty, so no byte is stored
Write8(m, address, value) ==
    CASE address < ROM_END -> m
      [] address < VRAM_END -> m
      [] address < SRAM_END -> m
      [] address < WRAM_END -> m
      [] address < ECHO_END -> m
      [] address < OAM_END -> m
      [] address < UNUSED_END -> m
      [] address < IO_END -> m
      [] address < HRAM_END -> m
      [] address = 65535 -> m

\* the switch of Read8: the backing array and the index the case of an
\* address names, "none" where the case returns 0 without reading an array
Resolve(address) ==
    CASE address < ROM_END -> [arr |-> "cart", idx |-> address]
      [] address < VRAM_END -> [arr |-> "vram", idx |-> address - ROM_END]
      [] address < SRAM_END -> [arr |-> "sram", idx |-> address - VRAM_END]
      [] address < WRAM_END -> [arr |-> "wram", idx |-> address - SRAM_END]
      [] address < ECHO_END -> [arr |-> "wram", idx |-> address - WRAM_END]
      [] address < OAM_END -> [arr |-> "oam", idx |-> address - ECHO_END]
      [] address < UNUSED_END -> [arr |-> "none", idx |-> 0]
      [] address < IO_END -> [arr |-> "io", idx |-> address - UNUSED_END]
      [] address < HRAM_END -> [arr |-> "hram", idx |-> address - IO_END]
      [] address = 65535 -> [arr |-> "none", idx |-> 0]

\* Read8: the byte at the place the switch names
Read8(m, address) ==
    LET at == Resolve(address)
    IN  IF at.arr = "none" THEN [panic |-> FALSE, val |-> 0]
        ELSE Index(m, at.arr, at.idx)

\* the body of Write16 is empty
Write16(m, address, value) == m

\* Read16 returns 0 whatever the memory holds
Read16(m, address) == 0

\* *sp -= 2, and nothing is written
WriteToStack16(m, value, sp) ==
    [mem |-> m, sp |-> U16(sp - 2 + 65536)]

------------------------------------------------------------------------------
(* The instructions (cpu.go:282-1339) and the dispatch tables              *)
(* (cpu.go:1343-1563).  An effect takes the CPU c = [regs, mem, ticks,     *)
(* stopped, panic] and the decoded operands and returns the CPU it leaves; *)
(* panic is set when the effect ends in a Go run-time panic.               *)

Panic(c) == [c EXCEPT !.panic = TRUE]

NoOperand == [operand8 |-> 0, operand16 |-> 0]

\* the registers in the order the opcodes 0x40-0xBF encode them; 6 is (HL)
RegName == <<"b", "c", "d", "e", "h", "l", "(hl)", "a">>

\* the value an opcode names by its low three bits: a register or Read8(HL)
Operand8Of(c, i) ==
    IF i = 6 THEN Read8(c.mem, GetHL(c.regs))
    ELSE [panic |-> FALSE, val |-> c.regs[RegName[i + 1]]]

\* 0x40-0x7F: LD r, r' / LD r, (HL) / LD (HL), r / HALT (empty)
LD_r_r(c, opcode) ==
    LET d == (opcode - 64) \div 8
        s == opcode % 8
        v == Operand8Of(c, s)
    IN  IF opcode = 118 THEN c                                   \* 0x76 HALT
        ELSE IF d = 6
             THEN [c EXCEPT !.mem = Write8(@, GetHL(c.regs), v.val)]
             ELSE IF v.panic THEN Panic(c)
                  ELSE [c EXCEPT !.regs[RegName[d + 1]] = v.val]

\* 0x80-0xBF: ADD A / ADC / SUB / SBC / AND / XOR / OR / CP with r or (HL)
ALU_A_r(c, opcode) ==
    LET g == (opcode - 128) \div 8
        v == Operand8Of(c, opcode % 8)
    IN  IF v.panic THEN Panic(c)
        ELSE [c EXCEPT !.regs =
                 CASE g = 0 -> ADD(@, "a", v.val)
                   [] g = 1 -> ADC(@, v.val)
                   [] g = 2 -> SUB(@, v.val)
                   [] g = 3 -> SBC(@, v.val)
                   [] g = 4 -> AND(@, v.val)
                   [] g = 5 -> XOR(@, v.val)
                   [] g = 6 -> OR(@, v.val)
                   [] g = 7 -> CP(@, v.val)]

\* 0x04 0x0C ... 0x3C: r = INC(r), and 0x34: Write8(HL, INC(Read8(HL)))
INC_r(c, i) ==
    LET v == Operand8Of(c, i)
        n == INC(c.regs, v.val)
    IN  IF v.panic THEN Panic(c)
        ELSE IF i = 6
             THEN [c EXCEPT !.regs = n.regs,
                            !.mem = Write8(@, GetHL(c.regs), n.val)]
             ELSE [c EXCEPT !.regs = [n.regs EXCEPT ![RegName[i + 1]] = n.val]]

\* 0x05 0x0D ... 0x3D: r = DEC(r), and 0x35: Write8(HL, DEC(Read8(HL)))
DEC_r(c, i) ==
    LET v == Operand8Of(c, i)
        n == DEC(c.regs, v.val)
    IN  IF v.panic THEN Panic(c)
        ELSE IF i = 6
             THEN [c EXCEPT !.regs = n.regs,
                            !.mem = Write8(@, GetHL(c.regs), n.val)]
             ELSE [c EXCEPT !.regs = [n.regs EXCEPT ![RegName[i + 1]] = n.val]]

\* 0x06 0x0E ... 0x3E: r = operand8, and 0x36: Write8(HL, operand8)
LD_r_d8(c, i, stepInfo) ==
    IF i = 6
    THEN [c EXCEPT !.mem = Write8(@, GetHL(c.regs), stepInfo.operand8)]
    ELSE [c EXCEPT !.regs[RegName[i + 1]] = stepInfo.operand8]

\* 0x06 - LD B, d8
LD_B_d8(c, stepInfo) == LD_r_d8(c, 0, stepInfo)

\* 0x01 - LD BC, d16
LD_BC_d16(c, stepInfo) == [c EXCEPT !.regs = SetBC(@, stepInfo.operand16)]
\* 0x11 - LD DE, d16
LD_DE_d16(c, stepInfo) == [c EXCEPT !.regs = SetDE(@, stepInfo.operand16)]
\* 0x21 - LD HL, d16
LD_HL_d16(c, stepInfo) == [c EXCEPT !.regs = SetHL(@, stepInfo.operand16)]
\* 0x31 - LD SP, d16
LD_SP_d16(c, stepInfo) == [c EXCEPT !.regs.sp = stepInfo.operand16]

\* 0x08 - LD (a16), SP
LD_a16_SP(c, stepInfo) ==
    [c EXCEPT !.mem = Write16(@, stepInfo.operand16, c.regs.sp)]

\* (a << 1) | (a >> 7) on a uint8
RotateLeft8(x) == Or(U8(x * 2), x \div 128)
\* (a >> 1) | (a << 7) on a uint8
RotateRight8(x) == Or(x \div 2, U8(x * 128))

\* 0x07 - RLCA
RLCA(c) ==
    LET r1 == [c.regs EXCEPT !.a = RotateLeft8(@)]
        r2 == SetZero(r1, FALSE)
        r3 == SetSubtract(r2, FALSE)
        r4 == SetHalfCarry(r3, FALSE)
    IN  [c EXCEPT !.regs = SetCarry(r4, And(r4.a, 1) # 0)]

\* 0x0F - RRCA
RRCA(c) ==
    LET r1 == SetCarry(c.regs, And(c.regs.a, 1) # 0)
        r2 == [r1 EXCEPT !.a = RotateRight8(@)]
        r3 == SetZero(r2, FALSE)
        r4 == SetSubtract(r3, FALSE)
    IN  [c EXCEPT !.regs = SetHalfCarry(r4, FALSE)]

\* 0x17 - RLA
RLA(c) ==
    LET r1 == SetCarry(c.regs, And(c.regs.a, 128) # 0)
        r2 == [r1 EXCEPT !.a = RotateLeft8(@)]
        r3 == SetZero(r2, FALSE)
        r4 == SetSubtract(r3, FALSE)
    IN  [c EXCEPT !.regs = SetHalfCarry(r4, FALSE)]

\* 0x37 - SCF
SCF(c) ==
    LET r1 == SetCarry(c.regs, TRUE)
        r2 == SetZero(r1, FALSE)
    IN  [c EXCEPT !.regs = SetHalfCarry(r2, FALSE)]

\* a plausible slip: the body left empty, as HALT's is
STOP_empty(c) == c

\* 0x10 - STOP
STOP(c) == [c EXCEPT !.stopped = TRUE]

\* 0x18 - JR r8: pc += uint16(operand8), the operand taken as unsigned
JR_r8(c, stepInfo) == [c EXCEPT !.regs.pc = U16(@ + stepInfo.operand8)]

\* 0x20 - JR NZ, r8
JR_NZ_r8(c, stepInfo) ==
    IF GetZero(c.regs) = 0
    THEN [c EXCEPT !.regs.pc = U16(@ + stepInfo.operand8)]
    ELSE c

\* 0x09 0x19 0x29 0x39 - ADD HL, rr: the bodies are empty
ADD_HL_BC(c) == c
ADD_HL_DE(c) == c
ADD_HL_HL(c) == c
ADD_HL_SP(c) == c

\* the load of A through a register pair, and the store of A (a dropped write)
LD_A_at(c, address) ==
    LET v == Read8(c.mem, address)
    IN  IF v.panic THEN Panic(c) ELSE [c EXCEPT !.regs.a = v.val]
LD_at_A(c, address) == [c EXCEPT !.mem = Write8(@, address, c.regs.a)]

\* the effect of the table entry of an opcode below 0xC0
Execute(opcode, c, stepInfo) ==
    CASE opcode >= 128 -> ALU_A_r(c, opcode)
      [] opcode >= 64 /\ opcode < 128 -> LD_r_r(c, opcode)
      [] opcode = 0 -> c                                          \* NOP
      [] opcode = 1 -> LD_BC_d16(c, stepInfo)
      [] opcode = 17 -> LD_DE_d16(c, stepInfo)
      [] opcode = 33 -> LD_HL_d16(c, stepInfo)
      [] opcode = 49 -> LD_SP_d16(c, stepInfo)
      [] opcode = 2 -> LD_at_A(c, GetBC(c.regs))                  \* LD (BC), A
      [] opcode = 18 -> LD_at_A(c, GetDE(c.regs))                 \* LD (DE), A
      [] opcode = 34 ->                                           \* LD (HL+), A
            LET c1 == LD_at_A(c, GetHL(c.regs))
            IN  [c1 EXCEPT !.regs = SetHL(@, U16(GetHL(@) + 1))]
      [] opcode = 50 ->                                           \* LD (HL-), A
            LET c1 == LD_at_A(c, GetHL(c.regs))
            IN  [c1 EXCEPT !.regs = SetHL(@, U16(GetHL(@) - 1 + 65536))]
      [] opcode = 3 -> [c EXCEPT !.regs = SetBC(@, U16(GetBC(@) + 1))]
      [] opcode = 19 -> [c EXCEPT !.regs = SetDE(@, U16(GetDE(@) + 1))]
      [] opcode = 35 -> [c EXCEPT !.regs = SetHL(@, U16(GetHL(@) + 1))]
      [] opcode = 51 -> [c EXCEPT !.regs.sp = U16(@ + 1)]
      [] opcode = 11 -> [c EXCEPT !.regs = SetBC(@, U16(GetBC(@) - 1 + 65536))]
      [] opcode = 27 -> [c EXCEPT !.regs = SetDE(@, U16(GetDE(@) - 1 + 65536))]
      [] opcode = 43 -> [c EXCEPT !.regs = SetHL(@, U16(GetHL(@) - 1 + 65536))]
      [] opcode = 59 -> [c EXCEPT !.regs.sp = U16(@ - 1 + 65536)]
      [] opcode < 64 /\ opcode % 8 = 4 -> INC_r(c, opcode \div 8)
      [] opcode < 64 /\ opcode % 8 = 5 -> DEC_r(c, opcode \div 8)
      [] opcode = 6 -> LD_B_d8(c, stepInfo)
      [] opcode < 64 /\ opcode % 8 = 6 /\ opcode # 6 ->
            LD_r_d8(c, opcode \div 8, stepInfo)
      [] opcode = 7 -> RLCA(c)
      [] opcode = 8 -> LD_a16_SP(c, stepInfo)
      [] opcode = 9 -> ADD_HL_BC(c)
      [] opcode = 25 -> ADD_HL_DE(c)
      [] opcode = 41 -> ADD_HL_HL(c)
      [] opcode = 57 -> ADD_HL_SP(c)
      [] opcode = 10 -> LD_A_at(c, GetBC(c.regs))                 \* LD A, (BC)
      [] opcode = 26 -> LD_A_at(c, GetDE(c.regs))                 \* LD A, (DE)
      [] opcode = 42 ->                                           \* LD A, (HL+)
            LET c1 == LD_A_at(c, GetHL(c.regs))
            IN  IF c1.panic THEN c1
                ELSE [c1 EXCEPT !.regs = SetHL(@, U16(GetHL(@) + 1))]
      [] opcode = 58 ->                                           \* LD A, (HL-)
            LET c1 == LD_A_at(c, GetHL(c.regs))
            IN  IF c1.panic THEN c1
                ELSE [c1 EXCEPT !.regs = SetHL(@, U16(GetHL(@) - 1 + 65536))]
      [] opcode = 15 -> RRCA(c)
      [] opcode = 16 -> STOP(c)
      [] opcode = 23 -> RLA(c)
      [] opcode = 24 -> JR_r8(c, stepInfo)
      [] opcode = 32 -> JR_NZ_r8(c, stepInfo)
      [] opcode = 55 -> SCF(c)
      \* RRA, DAA, JR Z, CPL, JR NC, JR C, CCF: the bodies are empty
      [] opcode \in {31, 39, 40, 47, 48, 56, 63} -> c

\* The instruction functions that CreateTable gives no entry (cpu.go:1302-1339)

\* 0xC0 - RET NZ
RET_NZ(c) ==
    LET c1 == IF GetZero(c.regs) = 0
              THEN [c EXCEPT !.regs.pc = Read16(c.mem, c.regs.sp),
                             !.regs.sp = U16(@ + 2)]
              ELSE c
    IN  [c1 EXCEPT !.regs.pc = U16(@ + 1)]

\* 0xC1 - POP BC
POP_BC(c) ==
    LET r1 == SetBC(c.regs, Read16(c.mem, c.regs.sp))
    IN  [c EXCEPT !.regs = [r1 EXCEPT !.sp = U16(@ + 2), !.pc = U16(@ + 1)]]

\* 0xC2 - JP NZ,nn
JP_NZ_NN(c, stepInfo) ==
    IF GetZero(c.regs) = 0
    THEN [c EXCEPT !.regs.pc = stepInfo.operand16]
    ELSE [c EXCEPT !.regs.pc = U16(@ + 3)]

\* 0xC3 - JP nn
JP_NN(c, stepInfo) == [c EXCEPT !.regs.pc = stepInfo.operand16]

\* UNKNOWN prints a message and changes nothing
UNKNOWN(c) == c

\* the instruction functions of cpu.go in the order they are written: the 192
\* of the table, then RET_NZ, POP_BC, JP_NZ_NN, JP_NN and UNKNOWN
InstructionFunction(i, c, stepInfo) ==
    CASE i < 192 -> Execute(i, c, stepInfo)
      [] i = 192 -> RET_NZ(c)
      [] i = 193 -> POP_BC(c)
      [] i = 194 -> JP_NZ_NN(c, stepInfo)
      [] i = 195 -> JP_NN(c, stepInfo)
      [] i = 196 -> UNKNOWN(c)

\* Instruction.instuctionLength of table[opcode]; the entries from 0xC0 on
\* are the zero Instruction, of length 0
InstuctionLength(opcode) ==
    CASE opcode >= 192 -> 0
      [] opcode = 0 -> 0
      [] opcode \in {1, 8, 17, 33, 49} -> 3
      [] opcode \in {6, 14, 22, 30, 38, 46, 54, 62} -> 2
      [] opcode \in {24, 32, 40, 48, 56} -> 2
      [] OTHER -> 1

\* ticksTable, indexed from 1
TicksTable ==
    <<2, 6, 4, 4, 2, 2, 4, 4, 10, 4, 4, 4, 2, 2, 4, 4,
      2, 6, 4, 4, 2, 2, 4, 4, 4, 4, 4, 4, 2, 2, 4, 4,
      0, 6, 4, 4, 2, 2, 4, 2, 0, 4, 4, 4, 2, 2, 4, 2,
      4, 6, 4, 4, 6, 6, 6, 2, 0, 4, 4, 4, 2, 2, 4, 2,
      2, 2, 2, 2, 2, 2, 4, 2, 2, 2, 2, 2, 2, 2, 4, 2,
      2, 2, 2, 2, 2, 2, 4, 2, 2, 2, 2, 2, 2, 2, 4, 2,
      2, 2, 2, 2, 2, 2, 4, 2, 2, 2, 2, 2, 2, 2, 4, 2,
      4, 4, 4, 4, 4, 4, 2, 4, 2, 2, 2, 2, 2, 2, 4, 2,
      2, 2, 2, 2, 2, 2, 4, 2, 2, 2, 2, 2, 2, 2, 4, 2,
      2, 2, 2, 2, 2, 2, 4, 2, 2, 2, 2, 2, 2, 2, 4, 2,
      2, 2, 2, 2, 2, 2, 4, 2, 2, 2, 2, 2, 2, 2, 4, 2,
      2, 2, 2, 2, 2, 2, 4, 2, 2, 2, 2, 2, 2, 2, 4, 2,
      0, 6, 0, 6, 0, 8, 4, 8, 0, 2, 0, 0, 0, 6, 4, 8,
      0, 6, 0, 0, 0, 8, 4, 8, 0, 8, 0, 0, 0, 0, 4, 8,
      6, 6, 4, 0, 0, 8, 4, 8, 8, 2, 8, 0, 0, 0, 4, 8,
      6, 6, 4, 2, 0, 8, 4, 8, 6, 4, 8, 2, 0, 0, 4, 8>>

\* a plausible slip: the guard on cpu.stopped left out
StepCPU_noGuard(c) ==
    LET fetch == Read8(c.mem, c.regs.pc)
        opcode == fetch.val
        c1 == [c EXCEPT !.regs.pc = U16(@ + 1)]
        len == InstuctionLength(opcode)
        c2 == CASE len = 0 -> c1
                [] len = 1 -> Execute(opcode, c1, NoOperand)
                [] len = 2 ->
                     LET operand == Read8(c1.mem, c1.regs.pc)
                     IN  IF operand.panic THEN Panic(c1)
                         ELSE Execute(opcode,
                                  [c1 EXCEPT !.regs.pc = U16(@ + operand.val)],
                                  [operand8 |-> operand.val, operand16 |-> 0])
                [] len = 3 ->
                     LET operand == Read16(c1.mem, c1.regs.pc)
                     IN  Execute(opcode,
                             [c1 EXCEPT !.regs.pc = U16(@ + operand)],
                             [operand8 |-> 0, operand16 |-> operand])
    IN  IF fetch.panic THEN Panic(c)
        ELSE IF c2.panic THEN c2
        ELSE [c2 EXCEPT !.ticks = @ + TicksTable[opcode + 1]]

\* a plausible slip: the commented-out early return on the zero Instruction
\* (cpu.go:1586-1588) put back, so an opcode without an entry adds no ticks
StepCPU_returnsOnUndefined(c) ==
    IF c.stopped THEN c
    ELSE
      LET fetch == Read8(c.mem, c.regs.pc)
          opcode == fetch.val
          c1 == [c EXCEPT !.regs.pc = U16(@ + 1)]
          len == InstuctionLength(opcode)
          c2 == CASE len = 0 -> c1
                  [] len = 1 -> Execute(opcode, c1, NoOperand)
                  [] len = 2 ->
                       LET operand == Read8(c1.mem, c1.regs.pc)
                       IN  IF operand.panic THEN Panic(c1)
                           ELSE Execute(opcode,
                                    [c1 EXCEPT !.regs.pc = U16(@ + operand.val)],
                                    [operand8 |-> operand.val, operand16 |-> 0])
                  [] len = 3 ->
                       LET operand == Read16(c1.mem, c1.regs.pc)
                       IN  Execute(opcode,
                               [c1 EXCEPT !.regs.pc = U16(@ + operand)],
                               [operand8 |-> 0, operand16 |-> operand])
      IN  IF fetch.panic THEN Panic(c)
          ELSE IF opcode >= 192 THEN c1
          ELSE IF c2.panic THEN c2
          ELSE [c2 EXCEPT !.ticks = @ + TicksTable[opcode + 1]]

\* a plausible slip: the table entry assigned to the counter, not added
StepCPU_ticksAssigned(c) ==
    IF c.stopped THEN c
    ELSE
      LET fetch == Read8(c.mem, c.regs.pc)
          opcode == fetch.val
          c1 == [c EXCEPT !.regs.pc = U16(@ + 1)]
          len == InstuctionLength(opcode)
          c2 == CASE len = 0 -> c1
                  [] len = 1 -> Execute(opcode, c1, NoOperand)
                  [] len = 2 ->
                       LET operand == Read8(c1.mem, c1.regs.pc)
                       IN  IF operand.panic THEN Panic(c1)
                           ELSE Execute(opcode,
                                    [c1 EXCEPT !.regs.pc = U16(@ + operand.val)],
                                    [operand8 |-> operand.val, operand16 |-> 0])
                  [] len = 3 ->
                       LET operand == Read16(c1.mem, c1.regs.pc)
                       IN  Execute(opcode,
                               [c1 EXCEPT !.regs.pc = U16(@ + operand)],
                               [operand8 |-> 0, operand16 |-> operand])
      IN  IF fetch.panic THEN Panic(c)
          ELSE IF c2.panic THEN c2
          ELSE [c2 EXCEPT !.ticks = TicksTable[opcode + 1]]

\* CPU.Step on a CPU that has not panicked
StepCPU(c) ==
    IF c.stopped THEN c
    ELSE
      LET fetch == Read8(c.mem, c.regs.pc)
          opcode == fetch.val
          c1 == [c EXCEPT !.regs.pc = U16(@ + 1)]                \* pc++
          len == InstuctionLength(opcode)
          c2 == CASE len = 0 -> c1
                  [] len = 1 -> Execute(opcode, c1, NoOperand)
                  [] len = 2 ->
                       LET operand == Read8(c1.mem, c1.regs.pc)
                       IN  IF operand.panic THEN Panic(c1)
                           ELSE Execute(opcode,
                                    [c1 EXCEPT !.regs.pc = U16(@ + operand.val)],
                                    [operand8 |-> operand.val, operand16 |-> 0])
                  [] len = 3 ->
                       LET operand == Read16(c1.mem, c1.regs.pc)
                       IN  Execute(opcode,
                               [c1 EXCEPT !.regs.pc = U16(@ + operand)],
                               [operand8 |-> 0, operand16 |-> operand])
      IN  IF fetch.panic THEN Panic(c)
          ELSE IF c2.panic THEN c2
          ELSE [c2 EXCEPT !.ticks = @ + TicksTable[opcode + 1]]

\* a plausible slip: the tick counter not cleared
ResetCPU_keepsTicks(c) ==
    LET r1 == SetBC(c.regs, 19)
        r2 == SetDE(r1, 216)
        r3 == SetHL(r2, 333)
    IN  [c EXCEPT !.regs = [r3 EXCEPT !.sp = 65534, !.pc = 256],
                  !.stopped = FALSE]

\* CPU.Reset: a and f are left as they are
ResetCPU(c) ==
    LET r1 == SetBC(c.regs, 19)           \* 0x0013
        r2 == SetDE(r1, 216)              \* 0x00D8
        r3 == SetHL(r2, 333)              \* 0x014D
    IN  [c EXCEPT !.regs = [r3 EXCEPT !.sp = 65534, !.pc = 256],
                  !.stopped = FALSE,
                  !.ticks = 0]

------------------------------------------------------------------------------
(* The observer.                                                            *)

NoCall == [op |-> "none", arg |-> 0, arg2 |-> 0, ret |-> 0,
           pre |-> ZeroRegs, preMem |-> ZeroMem, preTicks |-> 0,
           preStopped |-> FALSE, cost |-> 0]

Call(name, x, y, result) ==
    [op |-> name, arg |-> x, arg2 |-> y, ret |-> result,
     pre |-> regs, preMem |-> mem, preTicks |-> ticks,
     preStopped |-> stopped, cost |-> last.cost]

\* the observer's record of a Step: cost is the sum of the tick-table entries
\* of the opcodes executed since the last Reset (or since construction); a
\* Step in the Stopped state or one ended by a panic executes none
StepCall(c) ==
    LET opcode == Read8(mem, regs.pc).val
    IN  [Call("Step", opcode, 0, 0) EXCEPT
            !.cost = IF stopped \/ c.panic THEN @
                     ELSE @ + TicksTable[opcode + 1]]

\* the observer's record of a Reset
ResetCall == [Call("Reset", 0, 0, 0) EXCEPT !.cost = 0]

------------------------------------------------------------------------------
(* SpecALU: one call of an ALU helper on the accumulator, from every       *)
(* accumulator value and with the four flags all clear or all set.         *)

FlagStarts == {0, 240}     \* 0x00, 0xF0

InitALU ==
    /\ \E x \in Byte, fl \in FlagStarts :
           regs = [ZeroRegs EXCEPT !.a = x, !.f = fl]
    /\ mem = ZeroMem
    /\ ticks = 0
    /\ stopped = FALSE
    /\ panicked = FALSE
    /\ last = NoCall
    /\ nops = 0

CallADD ==
    /\ nops = 0
    /\ \E v \in Byte :
           /\ regs' = ADD(regs, "a", v)
           /\ last' = Call("ADD", v, 0, 0)
    /\ nops' = nops + 1
    /\ UNCHANGED <<mem, ticks, stopped, panicked>>

CallSUB ==
    /\ nops = 0
    /\ \E v \in Byte :
           /\ regs' = SUB(regs, v)
           /\ last' = Call("SUB", v, 0, 0)
    /\ nops' = nops + 1
    /\ UNCHANGED <<mem, ticks, stopped, panicked>>

CallCP ==
    /\ nops = 0
    /\ \E v \in Byte :
           /\ regs' = CP(regs, v)
           /\ last' = Call("CP", v, 0, 0)
    /\ nops' = nops + 1
    /\ UNCHANGED <<mem, ticks, stopped, panicked>>

NextALU == CallADD \/ CallSUB \/ CallCP

SpecALU == InitALU /\ [][NextALU]_vars

------------------------------------------------------------------------------
(* SpecRegs: one call of a register-pair setter with every 16-bit value,   *)
(* from a register file whose 8-bit registers are all 0x00 or all 0xFF.    *)

RegFill(x) ==
    [a |-> x, b |-> x, c |-> x, d |-> x, e |-> x, h |-> x, l |-> x,
     f |-> And(x, 240), pc |-> 256, sp |-> 65534]

InitRegs ==
    /\ \E x \in {0, 255} : regs = RegFill(x)
    /\ mem = ZeroMem
    /\ ticks = 0
    /\ stopped = FALSE
    /\ panicked = FALSE
    /\ last = NoCall
    /\ nops = 0

CallSetBC ==
    /\ nops = 0
    /\ \E v \in Word :
           /\ regs' = SetBC(regs, v)
           /\ last' = Call("SetBC", v, 0, 0)
    /\ nops' = nops + 1
    /\ UNCHANGED <<mem, ticks, stopped, panicked>>

CallSetDE ==
    /\ nops = 0
    /\ \E v \in Word :
           /\ regs' = SetDE(regs, v)
           /\ last' = Call("SetDE", v, 0, 0)
    /\ nops' = nops + 1
    /\ UNCHANGED <<mem, ticks, stopped, panicked>>

CallSetHL ==
    /\ nops = 0
    /\ \E v \in Word :
           /\ regs' = SetHL(regs, v)
           /\ last' = Call("SetHL", v, 0, 0)
    /\ nops' = nops + 1
    /\ UNCHANGED <<mem, ticks, stopped, panicked>>

NextRegs == CallSetBC \/ CallSetDE \/ CallSetHL

SpecRegs == InitRegs /\ [][NextRegs]_vars

------------------------------------------------------------------------------
(* The cartridge.  The backing arrays are zero at construction and the     *)
(* external loader fills the cartridge ROM before the first step: a        *)
(* cartridge image here is ProgLen bytes at the reset vector 0x0100, the   *)
(* rest of the ROM zero.                                                   *)

ProgBase == 256        \* 0x0100, the pc Reset sets
ProgLen == 3
MaxSteps == 4
MaxBusCalls == 2

\* opcodes and operand bytes the images are made of:
\* 0x00 NOP, 0x01 LD BC,d16, 0x06 LD B,d8, 0x10 STOP, 0x18 JR r8,
\* 0x20 JR NZ,r8, 0x42 LD B,D, 0x80 ADD A,B, 0xC2 (no entry), 0xFF (no entry)
ProgBytes == {0, 1, 6, 16, 24, 32, 66, 128, 194, 255}

Images == [ProgBase .. ProgBase + ProgLen - 1 -> ProgBytes]

------------------------------------------------------------------------------
(* SpecBus: calls of the memory map's methods on a zero memory map or one  *)
(* with a cartridge loaded, at addresses on and around every region        *)
(* boundary.                                                               *)

BusAddrs ==
    {0, 1, 256, 257, 258, 32767,           \* cartridge ROM 0x0000-0x7FFF
     32768, 36864, 36865, 40959,           \* video RAM     0x8000-0x9FFF
     40960, 40961, 49151,                  \* external RAM  0xA000-0xBFFF
     49152, 49153, 53247, 53248, 53249,    \* work RAM      0xC000-0xDFFF
     57343,
     57344, 57345, 61439, 61440, 65023,    \* echo RAM      0xE000-0xFDFF
     65024, 65025, 65183,                  \* sprite table  0xFE00-0xFE9F
     65184, 65279,                         \* unusable      0xFEA0-0xFEFF
     65280, 65281, 65407,                  \* I/O           0xFF00-0xFF7F
     65408, 65409, 65533, 65534,           \* high RAM      0xFF80-0xFFFE
     65535}                                \* interrupt enable

BusBytes == {0, 1, 171, 205, 255}          \* 0x00 0x01 0xAB 0xCD 0xFF
BusWords == {0, 1, 4660, 43981, 65535}     \* 0x0000 0x0001 0x1234 0xABCD 0xFFFF
StackStarts == {0, 1, 2, 53250, 65534}     \* 0x0000 0x0001 0x0002 0xD002 0xFFFE

BusImage == [i \in ProgBase .. ProgBase + 2 |-> 171 + (i - ProgBase)]

InitBus ==
    /\ \E s \in StackStarts : regs = [ZeroRegs EXCEPT !.sp = s]
    /\ mem \in {ZeroMem, [ZeroMem EXCEPT !.cart = BusImage]}
    /\ ticks = 0
    /\ stopped = FALSE
    /\ panicked = FALSE
    /\ last = NoCall
    /\ nops = 0

CallWrite8 ==
    /\ ~panicked
    /\ nops < MaxBusCalls
    /\ \E address \in BusAddrs, value \in BusBytes :
           /\ mem' = Write8(mem, address, value)
           /\ last' = Call("Write8", address, value, 0)
    /\ nops' = nops + 1
    /\ UNCHANGED <<regs, ticks, stopped, panicked>>

CallRead8 ==
    /\ ~panicked
    /\ nops < MaxBusCalls
    /\ \E address \in BusAddrs :
           LET res == Read8(mem, address)
           IN  /\ panicked' = res.panic
               /\ last' = Call("Read8", address, 0, res.val)
    /\ nops' = nops + 1
    /\ UNCHANGED <<regs, mem, ticks, stopped>>

CallWrite16 ==
    /\ ~panicked
    /\ nops < MaxBusCalls
    /\ \E address \in BusAddrs, value \in BusWords :
           /\ mem' = Write16(mem, address, value)
           /\ last' = Call("Write16", address, value, 0)
    /\ nops' = nops + 1
    /\ UNCHANGED <<regs, ticks, stopped, panicked>>

CallRead16 ==
    /\ ~panicked
    /\ nops < MaxBusCalls
    /\ \E address \in BusAddrs :
           last' = Call("Read16", address, 0, Read16(mem, address))
    /\ nops' = nops + 1
    /\ UNCHANGED <<regs, mem, ticks, stopped, panicked>>

\* WriteToStack16(value, &cpu.regs.sp)
CallWriteToStack16 ==
    /\ ~panicked
    /\ nops < MaxBusCalls
    /\ \E value \in BusWords :
           LET res == WriteToStack16(mem, value, regs.sp)
           IN  /\ mem' = res.mem
               /\ regs' = [regs EXCEPT !.sp = res.sp]
               /\ last' = Call("WriteToStack16", value, 0, 0)
    /\ nops' = nops + 1
    /\ UNCHANGED <<ticks, stopped, panicked>>

NextBus ==
    \/ CallWrite8
    \/ CallRead8
    \/ CallWrite16
    \/ CallRead16
    \/ CallWriteToStack16

SpecBus == InitBus /\ [][NextBus]_vars

------------------------------------------------------------------------------
(* Spec: the CPU, constructed with its dispatch and tick tables built, its *)
(* registers zero and a cartridge loaded; then any sequence of Reset and   *)
(* Step.                                                                   *)

ThisCPU ==
    [regs |-> regs, mem |-> mem, ticks |-> ticks, stopped |-> stopped,
     panic |-> FALSE]

Init ==
    /\ regs = ZeroRegs
    /\ \E image \in Images : mem = [ZeroMem EXCEPT !.cart = image]
    /\ ticks = 0
    /\ stopped = FALSE
    /\ panicked = FALSE
    /\ last = NoCall
    /\ nops = 0

\* the opcode byte at pc and the operand byte after it, for the observer
Step ==
    /\ ~panicked
    /\ nops < MaxSteps
    /\ LET c == StepCPU(ThisCPU)
       IN  /\ regs' = c.regs
           /\ mem' = c.mem
           /\ ticks' = c.ticks
           /\ stopped' = c.stopped
           /\ panicked' = c.panic
    /\ last' = StepCall(StepCPU(ThisCPU))
    /\ nops' = nops + 1

Reset ==
    /\ ~panicked
    /\ nops < MaxSteps
    /\ LET c == ResetCPU(ThisCPU)
       IN  /\ regs' = c.regs
           /\ mem' = c.mem
           /\ ticks' = c.ticks
           /\ stopped' = c.stopped
    /\ last' = ResetCall
    /\ nops' = nops + 1
    /\ UNCHANGED panicked

Next == Step \/ Reset

Spec == Init /\ [][Next]_vars

------------------------------------------------------------------------------
(* SpecOpcodes: Reset and Step as in Spec, over cartridges that put every  *)
(* opcode byte at the reset vector: each of the 256 opcodes followed by an *)
(* operand byte, the relative jumps followed by every displacement, and    *)
(* the conditional jumps behind XOR A, which sets the Zero flag.           *)

OperandBytes == {0, 1, 2, 127, 128, 254, 255}

ImageOf(b0, b1, b2) ==
    (ProgBase :> b0) @@ (ProgBase + 1 :> b1) @@ (ProgBase + 2 :> b2)

OpcodeImages ==
    {ImageOf(op, d, 0) : op \in Byte, d \in OperandBytes}
    \cup {ImageOf(op, d, 0) : op \in {24, 32}, d \in Byte}       \* JR, JR NZ
    \cup {ImageOf(175, op, d) : op \in {24, 32, 194}, d \in Byte} \* XOR A first

InitOpcodes ==
    /\ regs = ZeroRegs
    /\ \E image \in OpcodeImages : mem = [ZeroMem EXCEPT !.cart = image]
    /\ ticks = 0
    /\ stopped = FALSE
    /\ panicked = FALSE
    /\ last = NoCall
    /\ nops = 0

SpecOpcodes == InitOpcodes /\ [][Next]_vars

------------------------------------------------------------------------------
(* SpecIncDec: one call of INC or DEC with every 8-bit value, from each of *)
(* the sixteen settings of the four flags.                                 *)

FlagStates == {16 * k : k \in 0 .. 15}

InitIncDec ==
    /\ \E fl \in FlagStates : regs = [ZeroRegs EXCEPT !.f = fl]
    /\ mem = ZeroMem
    /\ ticks = 0
    /\ stopped = FALSE
    /\ panicked = FALSE
    /\ last = NoCall
    /\ nops = 0

CallINC ==
    /\ nops = 0
    /\ \E x \in Byte :
           LET res == INC(regs, x)
           IN  /\ regs' = res.regs
               /\ last' = Call("INC", x, 0, res.val)
    /\ nops' = nops + 1
    /\ UNCHANGED <<mem, ticks, stopped, panicked>>

CallDEC ==
    /\ nops = 0
    /\ \E x \in Byte :
           LET res == DEC(regs, x)
           IN  /\ regs' = res.regs
               /\ last' = Call("DEC", x, 0, res.val)
    /\ nops' = nops + 1
    /\ UNCHANGED <<mem, ticks, stopped, panicked>>

NextIncDec == CallINC \/ CallDEC

SpecIncDec == InitIncDec /\ [][NextIncDec]_vars

------------------------------------------------------------------------------
(* SpecLogic: one call of AND, OR or XOR with every operand, from every    *)
(* accumulator value and with the four flags all clear or all set.         *)

CallAND ==
    /\ nops = 0
    /\ \E v \in Byte :
           /\ regs' = AND(regs, v)
           /\ last' = Call("AND", v, 0, 0)
    /\ nops' = nops + 1
    /\ UNCHANGED <<mem, ticks, stopped, panicked>>

CallOR ==
    /\ nops = 0
    /\ \E v \in Byte :
           /\ regs' = OR(regs, v)
           /\ last' = Call("OR", v, 0, 0)
    /\ nops' = nops + 1
    /\ UNCHANGED <<mem, ticks, stopped, panicked>>

CallXOR ==
    /\ nops = 0
    /\ \E v \in Byte :
           /\ regs' = XOR(regs, v)
           /\ last' = Call("XOR", v, 0, 0)
    /\ nops' = nops + 1
    /\ UNCHANGED <<mem, ticks, stopped, panicked>>

NextLogic == CallAND \/ CallOR \/ CallXOR

SpecLogic == InitALU /\ [][NextLogic]_vars

------------------------------------------------------------------------------
(* SpecCarryIn: one call of an operation that reads the Carry flag, ADC,   *)
(* SBC or RLA, from every accumulator value, with every operand and with   *)
(* the four flags all clear (carry-in 0) or all set (carry-in 1).          *)

CallADC ==
    /\ nops = 0
    /\ \E v \in Byte :
           /\ regs' = ADC(regs, v)
           /\ last' = Call("ADC", v, 0, 0)
    /\ nops' = nops + 1
    /\ UNCHANGED <<mem, ticks, stopped, panicked>>

CallSBC ==
    /\ nops = 0
    /\ \E v \in Byte :
           /\ regs' = SBC(regs, v)
           /\ last' = Call("SBC", v, 0, 0)
    /\ nops' = nops + 1
    /\ UNCHANGED <<mem, ticks, stopped, panicked>>

CallRLA ==
    /\ nops = 0
    /\ regs' = RLA(ThisCPU).regs
    /\ last' = Call("RLA", 0, 0, 0)
    /\ nops' = nops + 1
    /\ UNCHANGED <<mem, ticks, stopped, panicked>>

NextCarryIn == CallADC \/ CallSBC \/ CallRLA

SpecCarryIn == InitALU /\ [][NextCarryIn]_vars

------------------------------------------------------------------------------
(* SpecAdd16: one call of ADD_16 on the stack pointer, with destination    *)
(* and operand values on and around the carries out of bits 3, 7, 11 and   *)
(* 15, the four flags all clear or all set.                                *)

\* 0x0000 0x0001 0x000F 0x0010 0x00FF 0x0100 0x0800 0x0FFF 0x1000 0x8000
\* 0xF000 0xFFFF
Words16 == {0, 1, 15, 16, 255, 256, 2048, 4095, 4096, 32768, 61440, 65535}

InitAdd16 ==
    /\ \E x \in Words16, fl \in FlagStarts :
           regs = [ZeroRegs EXCEPT !.sp = x, !.f = fl]
    /\ mem = ZeroMem
    /\ ticks = 0
    /\ stopped = FALSE
    /\ panicked = FALSE
    /\ last = NoCall
    /\ nops = 0

\* ADD_16(&cpu.regs.sp, value)
CallADD_16 ==
    /\ nops = 0
    /\ \E y \in Words16 :
           /\ regs' = ADD_16(regs, "sp", y)
           /\ last' = Call("ADD_16", y, 0, 0)
    /\ nops' = nops + 1
    /\ UNCHANGED <<mem, ticks, stopped, panicked>>

NextAdd16 == CallADD_16

SpecAdd16 == InitAdd16 /\ [][NextAdd16]_vars

------------------------------------------------------------------------------
(* SpecUntabled: calls of the instruction functions that the dispatch      *)
(* table has no entry for, RET_NZ, POP_BC, JP_NZ_NN and JP_NN, with the    *)
(* Zero flag clear or set and the stack pointer in high RAM, in work RAM   *)
(* or on the bytes of a loaded cartridge.                                  *)

MaxCalls == 2

ReturnStacks == {256, 49152, 65532, 65534}     \* 0x0100 0xC000 0xFFFC 0xFFFE

InitUntabled ==
    /\ \E s \in ReturnStacks, fl \in {0, 128} :
           regs = [ZeroRegs EXCEPT !.sp = s, !.f = fl, !.pc = ProgBase]
    /\ mem \in {ZeroMem, [ZeroMem EXCEPT !.cart = BusImage]}
    /\ ticks = 0
    /\ stopped = FALSE
    /\ panicked = FALSE
    /\ last = NoCall
    /\ nops = 0

CallRET_NZ ==
    /\ nops < MaxCalls
    /\ regs' = RET_NZ(ThisCPU).regs
    /\ last' = Call("RET_NZ", 0, 0, 0)
    /\ nops' = nops + 1
    /\ UNCHANGED <<mem, ticks, stopped, panicked>>

CallPOP_BC ==
    /\ nops < MaxCalls
    /\ regs' = POP_BC(ThisCPU).regs
    /\ last' = Call("POP_BC", 0, 0, 0)
    /\ nops' = nops + 1
    /\ UNCHANGED <<mem, ticks, stopped, panicked>>

CallJP_NZ_NN ==
    /\ nops < MaxCalls
    /\ \E nn \in BusWords :
           /\ regs' = JP_NZ_NN(ThisCPU, [operand8 |-> 0, operand16 |-> nn]).regs
           /\ last' = Call("JP_NZ_NN", nn, 0, 0)
    /\ nops' = nops + 1
    /\ UNCHANGED <<mem, ticks, stopped, panicked>>

CallJP_NN ==
    /\ nops < MaxCalls
    /\ \E nn \in BusWords :
           /\ regs' = JP_NN(ThisCPU, [operand8 |-> 0, operand16 |-> nn]).regs
           /\ last' = Call("JP_NN", nn, 0, 0)
    /\ nops' = nops + 1
    /\ UNCHANGED <<mem, ticks, stopped, panicked>>

NextUntabled == CallRET_NZ \/ CallPOP_BC \/ CallJP_NZ_NN \/ CallJP_NN

SpecUntabled == InitUntabled /\ [][NextUntabled]_vars

------------------------------------------------------------------------------
(* SpecEffects: from the zero-initialised CPU, any sequence of Reset,      *)
(* Step, the instruction functions called with their operands, and the     *)
(* four flag setters.  The observer does not record which instruction      *)
(* function ran, so that sequences reaching the same CPU state meet.       *)

MaxEffects == 2

\* 0x05 DEC B, 0x80 ADD A,B, 0x17 RLA
EffectImage == ImageOf(5, 128, 23)

EffectOperands ==
    {[operand8 |-> 0, operand16 |-> 0],
     [operand8 |-> 1, operand16 |-> 4660],          \* 0x01, 0x1234
     [operand8 |-> 255, operand16 |-> 65535]}       \* 0xFF, 0xFFFF

InitEffects ==
    /\ regs = ZeroRegs
    /\ mem = [ZeroMem EXCEPT !.cart = EffectImage]
    /\ ticks = 0
    /\ stopped = FALSE
    /\ panicked = FALSE
    /\ last = NoCall
    /\ nops = 0

EffectStep ==
    /\ ~panicked
    /\ nops < MaxEffects
    /\ LET c == StepCPU(ThisCPU)
       IN  /\ regs' = c.regs
           /\ mem' = c.mem
           /\ ticks' = c.ticks
           /\ stopped' = c.stopped
           /\ panicked' = c.panic
    /\ last' = StepCall(StepCPU(ThisCPU))
    /\ nops' = nops + 1

EffectReset ==
    /\ ~panicked
    /\ nops < MaxEffects
    /\ LET c == ResetCPU(ThisCPU)
       IN  /\ regs' = c.regs
           /\ mem' = c.mem
           /\ ticks' = c.ticks
           /\ stopped' = c.stopped
    /\ last' = ResetCall
    /\ nops' = nops + 1
    /\ UNCHANGED panicked

Effect ==
    /\ ~panicked
    /\ nops < MaxEffects
    /\ \E i \in 0 .. 196, stepInfo \in EffectOperands :
           LET c == InstructionFunction(i, ThisCPU, stepInfo)
           IN  /\ regs' = c.regs
               /\ mem' = c.mem
               /\ ticks' = c.ticks
               /\ stopped' = c.stopped
               /\ panicked' = c.panic
    /\ last' = Call("Effect", 0, 0, 0)
    /\ nops' = nops + 1

CallSetZero ==
    /\ ~panicked
    /\ nops < MaxEffects
    /\ \E value \in BOOLEAN :
           /\ regs' = SetZero(regs, value)
           /\ last' = Call("SetZero", IF value THEN 1 ELSE 0, 0, 0)
    /\ nops' = nops + 1
    /\ UNCHANGED <<mem, ticks, stopped, panicked>>

CallSetSubtract ==
    /\ ~panicked
    /\ nops < MaxEffects
    /\ \E value \in BOOLEAN :
           /\ regs' = SetSubtract(regs, value)
           /\ last' = Call("SetSubtract", IF value THEN 1 ELSE 0, 0, 0)
    /\ nops' = nops + 1
    /\ UNCHANGED <<mem, ticks, stopped, panicked>>

CallSetHalfCarry ==
    /\ ~panicked
    /\ nops < MaxEffects
    /\ \E value \in BOOLEAN :
           /\ regs' = SetHalfCarry(regs, value)
           /\ last' = Call("SetHalfCarry", IF value THEN 1 ELSE 0, 0, 0)
    /\ nops' = nops + 1
    /\ UNCHANGED <<mem, ticks, stopped, panicked>>

CallSetCarry ==
    /\ ~panicked
    /\ nops < MaxEffects
    /\ \E value \in BOOLEAN :
           /\ regs' = SetCarry(regs, value)
           /\ last' = Call("SetCarry", IF value THEN 1 ELSE 0, 0, 0)
    /\ nops' = nops + 1
    /\ UNCHANGED <<mem, ticks, stopped, panicked>>

NextEffects ==
    \/ EffectStep
    \/ EffectReset
    \/ Effect
    \/ CallSetZero
    \/ CallSetSubtract
    \/ CallSetHalfCarry
    \/ CallSetCarry

SpecEffects == InitEffects /\ [][NextEffects]_vars

------------------------------------------------------------------------------
(* The properties.  The flags are read off the F register by arithmetic:   *)
(* bit 7 Zero, bit 6 Subtract, bit 5 HalfCarry, bit 4 Carry.               *)

ZeroSet(r) == (r.f \div 128) % 2 = 1
SubtractSet(r) == (r.f \div 64) % 2 = 1
HalfCarrySet(r) == (r.f \div 32) % 2 = 1
CarrySet(r) == (r.f \div 16) % 2 = 1

SameFlags(r1, r2) ==
    /\ ZeroSet(r1) <=> ZeroSet(r2)
    /\ SubtractSet(r1) <=> SubtractSet(r2)
    /\ HalfCarrySet(r1) <=> HalfCarrySet(r2)
    /\ CarrySet(r1) <=> CarrySet(r2)

\* every register outside the set changed is in r2 as it is in r1
SameExcept(r1, r2, changed) ==
    \A n \in (DOMAIN r1) \ changed : r2[n] = r1[n]

\* C1: for all 8-bit a and b, ADD on a destination holding a with operand b
\* leaves the destination (a+b) mod 256, sets Carry iff a+b > 255, sets Zero
\* iff (a+b) mod 256 = 0, and clears Subtract.
C1_AddSumCarryZeroSubtract ==
    last.op = "ADD" =>
        LET a0 == last.pre.a
            b0 == last.arg
        IN  /\ regs.a = (a0 + b0) % 256
            /\ CarrySet(regs) <=> (a0 + b0 > 255)
            /\ ZeroSet(regs) <=> ((a0 + b0) % 256 = 0)
            /\ ~SubtractSet(regs)

\* 0xFF + 0x01 with Subtract set beforehand: the sum wraps to zero
C1_Witness ==
    /\ last.op = "ADD"
    /\ last.pre.a = 255
    /\ last.arg = 1
    /\ SubtractSet(last.pre)
    /\ regs.a = 0
    /\ CarrySet(regs)
    /\ ZeroSet(regs)

\* C2: for all 8-bit a and b, ADD sets HalfCarry iff (a & 0xF) + (b & 0xF) >
\* 0xF, a being the destination value before the addition.
C2_AddHalfCarryOfOperands ==
    last.op = "ADD" =>
        (HalfCarrySet(regs) <=> ((last.pre.a % 16) + (last.arg % 16) > 15))

\* C3: SUB(b) sets Carry whenever a < b, and CP(b) leaves the accumulator
\* unchanged and leaves Zero, Subtract, HalfCarry and Carry as SUB(b) leaves
\* them from the same starting state.
C3_SubBorrowAndCpAsSub ==
    /\ (last.op = "SUB" /\ last.pre.a < last.arg) => CarrySet(regs)
    /\ last.op = "CP" =>
           /\ regs.a = last.pre.a
           /\ SameFlags(regs, SUB(last.pre, last.arg))

\* CP of 0x10 against 0x21 with all flags clear: a borrow, the accumulator kept
C3_Witness ==
    /\ last.op = "CP"
    /\ last.pre.a = 16
    /\ last.arg = 33
    /\ last.pre.f = 0
    /\ regs.a = 16
    /\ CarrySet(regs)
    /\ HalfCarrySet(regs)
    /\ SubtractSet(regs)
    /\ ~ZeroSet(regs)

\* C4: for XY in {BC, DE, HL} and every 16-bit v, SetXY(v) followed by
\* GetXY() returns v, the high register is v >> 8, the low register is
\* v & 0xFF, and no register outside the pair changes.
C4_PairRoundTrip ==
    /\ last.op = "SetBC" =>
           /\ GetBC(regs) = last.arg
           /\ regs.b = last.arg \div 256
           /\ regs.c = last.arg % 256
           /\ SameExcept(last.pre, regs, {"b", "c"})
    /\ last.op = "SetDE" =>
           /\ GetDE(regs) = last.arg
           /\ regs.d = last.arg \div 256
           /\ regs.e = last.arg % 256
           /\ SameExcept(last.pre, regs, {"d", "e"})
    /\ last.op = "SetHL" =>
           /\ GetHL(regs) = last.arg
           /\ regs.h = last.arg \div 256
           /\ regs.l = last.arg % 256
           /\ SameExcept(last.pre, regs, {"h", "l"})

\* SetBC(0x1234) on a register file of all 0xFF
C4_Witness ==
    /\ last.op = "SetBC"
    /\ last.arg = 4660
    /\ last.pre.b = 255
    /\ last.pre.c = 255
    /\ regs.b = 18
    /\ regs.c = 52
    /\ regs.d = 255
    /\ GetBC(regs) = 4660

\* the regions the bus writes to: video RAM, external RAM, work RAM, the
\* sprite attribute table, I/O, high RAM and the interrupt-enable byte
Writable(address) ==
    \/ address \in 32768 .. 57343      \* 0x8000-0xDFFF
    \/ address \in 65024 .. 65183      \* 0xFE00-0xFE9F
    \/ address \in 65280 .. 65535      \* 0xFF00-0xFFFF

\* C5: for every address in a writable region and every byte v,
\* Write8(addr, v) followed by Read8(addr) returns v.
C5_WriteThenRead ==
    (last.op = "Write8" /\ Writable(last.arg)) =>
        Read8(mem, last.arg) = [panic |-> FALSE, val |-> last.arg2]

Unusable(address) == address \in 65184 .. 65279     \* 0xFEA0-0xFEFF

\* C6: for every 16-bit v and every address outside the unusable region,
\* Write16(addr, v) followed by Read16(addr) returns v, stored little-endian:
\* Read8(addr) = v & 0xFF and Read8(addr+1) = v >> 8.
C6_WordRoundTrip ==
    (/\ last.op = "Write16"
     /\ ~Unusable(last.arg)
     /\ ~Unusable(U16(last.arg + 1))) =>
        /\ Read16(mem, last.arg) = last.arg2
        /\ Read8(mem, last.arg).val = last.arg2 % 256
        /\ Read8(mem, U16(last.arg + 1)).val = last.arg2 \div 256

\* C7: for 0 <= k < 0x1E00, after any sequence of bus writes Read8(0xE000+k)
\* equals Read8(0xC000+k): a byte written at either address is read back at
\* the other.
C7_EchoAliasesWorkRam ==
    /\ (last.op = "Read8" /\ last.arg \in 57344 .. 65023) =>
           /\ ~panicked
           /\ last.ret = Read8(mem, last.arg - 8192).val
    /\ (last.op = "Write8" /\ last.arg \in 57344 .. 65023) =>
           Read8(mem, last.arg - 8192).val = last.arg2
    /\ (last.op = "Write8" /\ last.arg \in 49152 .. 56831) =>
           Read8(mem, last.arg + 8192).val = last.arg2

\* C8: for every 16-bit v and every starting stack pointer s,
\* WriteToStack16(v, &sp) leaves sp = (s - 2) mod 2^16 and the word stored at
\* the resulting sp equal to v.
C8_PushStoresWord ==
    last.op = "WriteToStack16" =>
        /\ regs.sp = (last.pre.sp + 65534) % 65536
        /\ Read16(mem, regs.sp) = last.arg

\* a Step that ran: from the Running state and without a panic
StepRan == last.op = "Step" /\ ~last.preStopped /\ ~panicked

\* C9: for every opcode of instruction length 2 and every operand byte n at
\* pc+1, one Step from the Running state at pc = p leaves pc = (p+2) mod 2^16
\* whatever n is, and the effect receives n (0x06 LD B,d8 leaves B = n).
C9_LengthTwoStep ==
    (StepRan /\ InstuctionLength(last.arg) = 2) =>
        /\ regs.pc = (last.pre.pc + 2) % 65536
        /\ last.arg = 6 => regs.b = Read8(mem, U16(last.pre.pc + 1)).val

\* C10: for every opcode of instruction length 3, one Step from the Running
\* state at pc = p leaves pc = (p+3) mod 2^16 whatever the operand is, and the
\* operand is the byte at p+1 (low) and the byte at p+2 (high): 0x01 LD BC,d16
\* leaves C = byte at p+1 and B = byte at p+2.
C10_LengthThreeStep ==
    (StepRan /\ InstuctionLength(last.arg) = 3) =>
        /\ regs.pc = (last.pre.pc + 3) % 65536
        /\ last.arg = 1 =>
               /\ regs.c = Read8(mem, U16(last.pre.pc + 1)).val
               /\ regs.b = Read8(mem, U16(last.pre.pc + 2)).val

\* C11: a Step taken in the Stopped state changes nothing: the registers, the
\* flags, pc, sp, the memory, the tick counter and the stopped field are after
\* the Step what they were before it, and this for every Step of a run of
\* consecutive Steps.
C11_StoppedStepIsNoOp ==
    (last.op = "Step" /\ last.preStopped) =>
        /\ regs = last.pre
        /\ mem = last.preMem
        /\ ticks = last.preTicks
        /\ stopped
        /\ ~panicked

\* Reset, STOP executed at 0x0100, then two Steps in the Stopped state
C11_Witness ==
    /\ last.op = "Step"
    /\ last.preStopped
    /\ nops = 4
    /\ regs.pc = 257
    /\ ticks = 2
    /\ stopped

\* C12: a Step from the Running state leaves stopped true exactly when the
\* opcode it fetched is 0x10 (STOP), and a Step from the Stopped state leaves
\* it true: only Reset takes the CPU out of Stopped.
C12_StoppedOnlyBySTOP ==
    last.op = "Step" =>
        /\ ~last.preStopped => (stopped <=> (last.arg = 16 /\ ~panicked))
        /\ last.preStopped => stopped

\* a Step from the Running state that fetched 0x10 and left the CPU Stopped
C12_Witness ==
    /\ last.op = "Step"
    /\ ~last.preStopped
    /\ last.arg = 16
    /\ stopped

\* C13: Reset leaves BC = 0x0013, DE = 0x00D8, HL = 0x014D, SP = 0xFFFE,
\* PC = 0x0100, stopped = false and the tick counter 0, whatever the state it
\* is called in.
C13_ResetValues ==
    last.op = "Reset" =>
        /\ GetBC(regs) = 19
        /\ GetDE(regs) = 216
        /\ GetHL(regs) = 333
        /\ regs.sp = 65534
        /\ regs.pc = 256
        /\ ~stopped
        /\ ticks = 0

\* Reset called on a Stopped CPU whose tick counter and pc had moved
C13_Witness ==
    /\ last.op = "Reset"
    /\ last.preStopped
    /\ last.preTicks > 0
    /\ last.pre.pc # 256
    /\ ~stopped
    /\ ticks = 0
    /\ regs.pc = 256

\* C14: for every 8-bit x and every setting of the flags, INC(x) returns
\* (x+1) mod 256 with Zero set iff the result is 0, HalfCarry set iff
\* x & 0xF = 0xF and Subtract cleared; DEC(x) returns (x-1) mod 256 with Zero
\* set iff the result is 0, HalfCarry set iff x & 0xF = 0 and Subtract set;
\* neither changes Carry.
C14_IncDecFlags ==
    /\ last.op = "INC" =>
           /\ last.ret = (last.arg + 1) % 256
           /\ ZeroSet(regs) <=> (last.ret = 0)
           /\ HalfCarrySet(regs) <=> (last.arg % 16 = 15)
           /\ ~SubtractSet(regs)
           /\ CarrySet(regs) <=> CarrySet(last.pre)
    /\ last.op = "DEC" =>
           /\ last.ret = (last.arg + 255) % 256
           /\ ZeroSet(regs) <=> (last.ret = 0)
           /\ HalfCarrySet(regs) <=> (last.arg % 16 = 0)
           /\ SubtractSet(regs)
           /\ CarrySet(regs) <=> CarrySet(last.pre)

\* INC of 0xFF with only Subtract set beforehand: 0x00, Zero and HalfCarry
\* set, Subtract cleared, Carry still clear
C14_Witness ==
    /\ last.op = "INC"
    /\ last.arg = 255
    /\ last.pre.f = 64
    /\ last.ret = 0
    /\ regs.f = 160

\* bit i of x, and the three bitwise operations bit by bit
Bit(x, i) == (x \div (2 ^ i)) % 2
BitAnd(x, y) ==
    LET t[i \in 0 .. 8] ==
            IF i = 8 THEN 0 ELSE Bit(x, i) * Bit(y, i) * (2 ^ i) + t[i + 1]
    IN  t[0]
BitOr(x, y) ==
    LET t[i \in 0 .. 8] ==
            IF i = 8 THEN 0
            ELSE (IF Bit(x, i) + Bit(y, i) > 0 THEN 2 ^ i ELSE 0) + t[i + 1]
    IN  t[0]
BitXor(x, y) ==
    LET t[i \in 0 .. 8] ==
            IF i = 8 THEN 0
            ELSE ((Bit(x, i) + Bit(y, i)) % 2) * (2 ^ i) + t[i + 1]
    IN  t[0]

\* C15: for every accumulator a and operand v, AND leaves A = a & v with
\* HalfCarry set and Carry and Subtract clear; OR leaves A = a | v and XOR
\* leaves A = a ^ v, each with Subtract, HalfCarry and Carry clear; in all
\* three Zero is set iff the new A is 0.
C15_LogicFlags ==
    /\ last.op = "AND" =>
           /\ regs.a = BitAnd(last.pre.a, last.arg)
           /\ HalfCarrySet(regs)
           /\ ~CarrySet(regs)
           /\ ~SubtractSet(regs)
           /\ ZeroSet(regs) <=> (regs.a = 0)
    /\ last.op = "OR" =>
           /\ regs.a = BitOr(last.pre.a, last.arg)
           /\ ~HalfCarrySet(regs)
           /\ ~CarrySet(regs)
           /\ ~SubtractSet(regs)
           /\ ZeroSet(regs) <=> (regs.a = 0)
    /\ last.op = "XOR" =>
           /\ regs.a = BitXor(last.pre.a, last.arg)
           /\ ~HalfCarrySet(regs)
           /\ ~CarrySet(regs)
           /\ ~SubtractSet(regs)
           /\ ZeroSet(regs) <=> (regs.a = 0)

\* 0xF0 AND 0x0F with the four flags set beforehand: A = 0, Zero and
\* HalfCarry set, Subtract and Carry cleared
C15_Witness ==
    /\ last.op = "AND"
    /\ last.pre.a = 240
    /\ last.arg = 15
    /\ last.pre.f = 240
    /\ regs.a = 0
    /\ regs.f = 160

\* f2 is f1 but for the one bit of the given weight
OnlyBit(f1, f2, weight) ==
    f2 - ((f2 \div weight) % 2) * weight = f1 - ((f1 \div weight) % 2) * weight

\* C16: in every state reached from the zero-initialised CPU by Reset, Step,
\* the instruction functions and the flag setters, bits 3-0 of F are zero;
\* and a call of a flag setter leaves every bit of F but its own (7 Zero,
\* 6 Subtract, 5 HalfCarry, 4 Carry) as it was.
C16_LowNibbleOfFIsZero ==
    /\ regs.f % 16 = 0
    /\ last.op = "SetZero" => OnlyBit(last.pre.f, regs.f, 128)
    /\ last.op = "SetSubtract" => OnlyBit(last.pre.f, regs.f, 64)
    /\ last.op = "SetHalfCarry" => OnlyBit(last.pre.f, regs.f, 32)
    /\ last.op = "SetCarry" => OnlyBit(last.pre.f, regs.f, 16)

\* SetCarry(true) called with Subtract and HalfCarry set: F = 0x70
C16_Witness ==
    /\ last.op = "SetCarry"
    /\ last.arg = 1
    /\ last.pre.f = 96
    /\ regs.f = 112

\* C17: for every 16-bit address, Read8 and Write8 complete normally: no
\* call ends in a run-time panic.
C17_BusAccessNeverFatal ==
    last.op \in {"Read8", "Write8"} => ~panicked

Signed8(d) == IF d >= 128 THEN d - 256 ELSE d

\* the byte after the opcode and the one after that, as the Step found them
OperandLow == Read8(last.preMem, (last.pre.pc + 1) % 65536).val
OperandHigh == Read8(last.preMem, (last.pre.pc + 2) % 65536).val

\* C19: a Step that executes JR r8 (0x18) at pc = p with displacement byte d
\* leaves pc = (p + 2 + s) mod 2^16, s being d as a signed 8-bit value.
C19_JrSignedDisplacement ==
    (StepRan /\ last.arg = 24) =>
        regs.pc = (last.pre.pc + 2 + Signed8(OperandLow) + 65536) % 65536

\* C20: a Step that executes JR NZ,r8 (0x20) or JP NZ,nn (0xC2) with Zero set
\* leaves pc at the next instruction, p + 2 and p + 3; with Zero clear it
\* leaves pc at the jump target, p + 2 + s and nn.
C20_ConditionalJumps ==
    /\ (StepRan /\ last.arg = 32 /\ ZeroSet(last.pre)) =>
           regs.pc = (last.pre.pc + 2) % 65536
    /\ (StepRan /\ last.arg = 194 /\ ZeroSet(last.pre)) =>
           regs.pc = (last.pre.pc + 3) % 65536
    /\ (StepRan /\ last.arg = 32 /\ ~ZeroSet(last.pre)) =>
           regs.pc = (last.pre.pc + 2 + Signed8(OperandLow) + 65536) % 65536
    /\ (StepRan /\ last.arg = 194 /\ ~ZeroSet(last.pre)) =>
           regs.pc = OperandLow + 256 * OperandHigh

\* C21: a Step that executes ADD HL,rr (0x09 rr = BC, 0x19 DE, 0x29 HL,
\* 0x39 SP) leaves HL = (HL + rr) mod 2^16, both H and L written.
C21_AddHLrr ==
    /\ (StepRan /\ last.arg = 9) =>
           GetHL(regs) = (GetHL(last.pre) + GetBC(last.pre)) % 65536
    /\ (StepRan /\ last.arg = 25) =>
           GetHL(regs) = (GetHL(last.pre) + GetDE(last.pre)) % 65536
    /\ (StepRan /\ last.arg = 41) =>
           GetHL(regs) = (GetHL(last.pre) + GetHL(last.pre)) % 65536
    /\ (StepRan /\ last.arg = 57) =>
           GetHL(regs) = (GetHL(last.pre) + last.pre.sp) % 65536

\* C29: for all 8-bit a and b, ADD of b to a destination holding a and ADD of
\* a to a destination holding b leave the same result byte and the same
\* Zero, Subtract, HalfCarry and Carry.
C29_AddSymmetric ==
    last.op = "ADD" =>
        LET swapped == ADD([last.pre EXCEPT !.a = last.arg], "a", last.pre.a)
        IN  /\ regs.a = swapped.a
            /\ SameFlags(regs, swapped)

\* the carry-in of the call just made: the Carry flag it started with
CarryIn == IF CarrySet(last.pre) THEN 1 ELSE 0

\* C22: after ADD, ADC, SUB, SBC, AND, OR and XOR the Zero flag is set iff
\* the byte left in the accumulator is 0, and after INC and DEC iff the byte
\* returned is 0, for every operand and both carry-in values: ADC with
\* a + v + carry = 256 leaves A = 0 and Zero set.
C22_ZeroOfEightBitResult ==
    /\ last.op \in {"ADD", "ADC", "SUB", "SBC", "AND", "OR", "XOR"} =>
           (ZeroSet(regs) <=> (regs.a = 0))
    /\ last.op \in {"INC", "DEC"} =>
           (ZeroSet(regs) <=> (last.ret = 0))

\* C23: for every a, v and carry-in c, SBC leaves A = (a - v - c) mod 256,
\* sets Subtract, sets Carry iff a < v + c and sets HalfCarry iff
\* (a & 0xF) < (v & 0xF) + c, the two sums taken without wrapping.
C23_SbcBorrow ==
    last.op = "SBC" =>
        /\ regs.a = (last.pre.a - last.arg - CarryIn + 512) % 256
        /\ SubtractSet(regs)
        /\ CarrySet(regs) <=> (last.pre.a < last.arg + CarryIn)
        /\ HalfCarrySet(regs) <=> ((last.pre.a % 16) < (last.arg % 16) + CarryIn)

\* C27: for every a and carry-in c, RLA leaves A = ((a << 1) & 0xFF) | c and
\* Carry = the old bit 7 of a, and clears Zero, Subtract and HalfCarry.
C27_RlaThroughCarry ==
    last.op = "RLA" =>
        /\ regs.a = ((2 * last.pre.a) % 256) + CarryIn
        /\ CarrySet(regs) <=> (last.pre.a >= 128)
        /\ ~ZeroSet(regs)
        /\ ~SubtractSet(regs)
        /\ ~HalfCarrySet(regs)

\* the 16-bit word the memory holds at an address, low byte first
WordAt(m, address) ==
    Read8(m, address).val + 256 * Read8(m, (address + 1) % 65536).val

\* C24: RET NZ with Zero clear leaves pc = the word held at the old sp, with
\* no further adjustment, and sp = (sp + 2) mod 2^16; with Zero set it leaves
\* sp unchanged.
C24_RetRestoresPc ==
    /\ (last.op = "RET_NZ" /\ ~ZeroSet(last.pre)) =>
           /\ regs.pc = WordAt(last.preMem, last.pre.sp)
           /\ regs.sp = (last.pre.sp + 2) % 65536
    /\ (last.op = "RET_NZ" /\ ZeroSet(last.pre)) =>
           regs.sp = last.pre.sp

\* C28: for 16-bit x and y, ADD_16 on a destination holding x with operand y
\* leaves the destination (x + y) mod 2^16, sets Carry iff x + y > 0xFFFF and
\* sets HalfCarry iff (x & 0x0FFF) + (y & 0x0FFF) > 0x0FFF.
C28_Add16CarryAndHalfCarry ==
    last.op = "ADD_16" =>
        LET x == last.pre.sp
            y == last.arg
        IN  /\ regs.sp = (x + y) % 65536
            /\ CarrySet(regs) <=> (x + y > 65535)
            /\ HalfCarrySet(regs) <=> ((x % 4096) + (y % 4096) > 4095)

WorkRam == 49152 .. 57343          \* 0xC000-0xDFFF

\* C26: Read8 of an address in 0xC000-0xDFFF completes and returns the byte
\* of the work-RAM array at offset address - 0xC000, and no other address of
\* that range resolves to the same byte of the array: echo resolution begins
\* at 0xE000 and not before.
C26_WorkRamIsEightKDistinct ==
    (last.op = "Read8" /\ last.arg \in WorkRam) =>
        /\ ~panicked
        /\ Resolve(last.arg) = [arr |-> "wram", idx |-> last.arg - 49152]
        /\ \A other \in (BusAddrs \cap WorkRam) \ {last.arg} :
               Resolve(other) # Resolve(last.arg)

====
